---- MODULE Spec2Model ----
(***************************************************************************)
(* A model of solver.py: the Board constraint queries (find_all_possible,  *)
(* is_valid) and the recursive solve() search.  Board objects live in a    *)
(* heap and are referred to by reference, so that in-place mutation and    *)
(* deepcopy are distinguishable; each activation of solve() is a frame on  *)
(* a stack.                                                                *)
(***************************************************************************)
EXTENDS Integers, Sequences, FiniteSets, TLC

VARIABLES input, heap, stack, returned

vars == <<input, heap, stack, returned>>

(***************************************************************************)
(* Program constants                                                       *)
(***************************************************************************)
Side == 9
BoxSide == 3

Idx == 0..(Side - 1)
Digits == 1..Side

Range(s) == {s[k] : k \in 1..Len(s)}

\* Board(items): the list of 9 lists of 9 ints, indexed items[x][y] from 0.
Board(rows) == [x \in Idx |-> [y \in Idx |-> rows[x + 1][y + 1]]]

(***************************************************************************)
(* Board.yield_box / yield_row / yield_column / _all_others                *)
(***************************************************************************)
\* The eight other cells of the box in the order of the two loops: the
\* n-th cell of the box (row-major from 0), stepping over (x, y) itself.
yield_box(items, x, y) ==
    [k \in 1..(BoxSide * BoxSide - 1) |->
        LET x_start == (x \div BoxSide) * BoxSide
            y_start == (y \div BoxSide) * BoxSide
            skipped == (x - x_start) * BoxSide + (y - y_start)
            n == IF k - 1 < skipped THEN k - 1 ELSE k
        IN  items[x_start + (n \div BoxSide)][y_start + (n % BoxSide)]]

\* The eight other values of row x, in column order, stepping over column y.
yield_row(items, x, y) ==
    [k \in 1..(Side - 1) |-> items[x][IF k - 1 < y THEN k - 1 ELSE k]]

\* The eight other values of column y, in row order, stepping over row x.
yield_column(items, x, y) ==
    [k \in 1..(Side - 1) |-> items[IF k - 1 < x THEN k - 1 ELSE k][y]]

\* Variant of _all_others that leaves out the column.
all_others_no_column(items, x, y) ==
    yield_box(items, x, y) \o yield_row(items, x, y)

all_others(items, x, y) ==
    yield_box(items, x, y) \o yield_row(items, x, y) \o yield_column(items, x, y)

\* tuple(board.find_all_possible(x, y)): the legal digits in ascending order.
find_all_possible(items, x, y) ==
    LET other == {i \in Range(all_others(items, x, y)) : i # 0}
    IN  SelectSeq([k \in 1..Side |-> k], LAMBDA i : i \notin other)

(***************************************************************************)
(* Board.is_valid                                                          *)
(***************************************************************************)
\* One pass of "s = set(); for item in group: if item: if item in s: return
\* False; s.add(item)": TRUE when the pass finds no repeated non-zero item.
NoRepeat(group) ==
    \A j \in 1..Len(group) :
        group[j] # 0 => \A i \in 1..(j - 1) : group[i] # group[j]

\* lines 78-85: for row in self.items
RowLoop(items) ==
    \A x \in Idx : NoRepeat([k \in 1..Side |-> items[x][k - 1]])

\* lines 86-93: for x in range(9): for y in range(9): item = self.items[x][y]
SecondLoop(items) ==
    \A x \in Idx : NoRepeat([k \in 1..Side |-> items[x][k - 1]])

\* lines 94-103: the nine boxes
BoxLoop(items) ==
    \A bi \in 0..(BoxSide - 1) : \A bj \in 0..(BoxSide - 1) :
        NoRepeat([n \in 1..(BoxSide * BoxSide) |->
                    items[bi * BoxSide + ((n - 1) \div BoxSide)]
                         [bj * BoxSide + ((n - 1) % BoxSide)]])

is_valid(items) == RowLoop(items) /\ SecondLoop(items) /\ BoxLoop(items)

(***************************************************************************)
(* Input grids.  Every run starts from one grid of a bounded family: a     *)
(* full grid with up to MaxBlanks of its template's cells emptied, and     *)
(* possibly one of the EditCells overwritten with any value 0..9.  The     *)
(* family holds solvable puzzles (some need backtracking), consistent      *)
(* puzzles without a completion, and grids with duplicates in rows,        *)
(* columns and boxes, full and partly filled.                              *)
(***************************************************************************)
MaxBlanks == 7

\* A valid completed grid.
SolvedRows ==
    << <<1,2,3,4,5,6,7,8,9>>, <<4,5,6,7,8,9,1,2,3>>, <<7,8,9,1,2,3,4,5,6>>,
       <<2,3,4,5,6,7,8,9,1>>, <<5,6,7,8,9,1,2,3,4>>, <<8,9,1,2,3,4,5,6,7>>,
       <<3,4,5,6,7,8,9,1,2>>, <<6,7,8,9,1,2,3,4,5>>, <<9,1,2,3,4,5,6,7,8>> >>

\* The same grid with the middle triple of rows 3 and 8 reversed: every row
\* and box still holds nine distinct digits, columns 3 and 5 do not.
SwappedRows ==
    << <<1,2,3,4,5,6,7,8,9>>, <<4,5,6,7,8,9,1,2,3>>, <<7,8,9,1,2,3,4,5,6>>,
       <<2,3,4,7,6,5,8,9,1>>, <<5,6,7,8,9,1,2,3,4>>, <<8,9,1,2,3,4,5,6,7>>,
       <<3,4,5,6,7,8,9,1,2>>, <<6,7,8,9,1,2,3,4,5>>, <<9,1,2,5,4,3,6,7,8>> >>

SolvedBlanks ==
    { <<3,2>>, <<3,5>>, <<3,8>>, <<4,2>>, <<4,5>>, <<5,2>>, <<5,8>>, <<4,8>>, <<5,5>> }

SwappedBlanks ==
    { <<1,3>>, <<3,3>>, <<2,5>>, <<8,5>>, <<8,3>>, <<3,5>>, <<0,0>> }

Templates ==
    { [rows |-> SolvedRows, blanks |-> SolvedBlanks],
      [rows |-> SwappedRows, blanks |-> SwappedBlanks] }

EditCells == { <<3,3>> }

\* Variant of the assignment with the two indices exchanged.
AssignTransposed(items, x, y, v) == [items EXCEPT ![y][x] = v]

\* Variant of the assignment whose store is lost.
AssignLost(items, x, y, v) == items

\* board.items[x][y] = v
Assign(items, x, y, v) == [items EXCEPT ![x][y] = v]

Blanked(items, M) ==
    [x \in Idx |-> [y \in Idx |-> IF <<x, y>> \in M THEN 0 ELSE items[x][y]]]

Edited(items, c, v) == [items EXCEPT ![c[1]][c[2]] = v]

Inputs ==
    LET masked == UNION { {Blanked(Board(t.rows), M) :
                              M \in {m \in SUBSET t.blanks : Cardinality(m) <= MaxBlanks}}
                          : t \in Templates }
    IN  masked \cup {Edited(g, c, v) : g \in masked, c \in EditCells, v \in 0..Side}

(***************************************************************************)
(* solve(): frames, heap and return values                                 *)
(***************************************************************************)
Pending == [kind |-> "pending", ref |-> 0]
ReturnNone == [kind |-> "None", ref |-> 0]
ReturnBoard(r) == [kind |-> "Board", ref |-> r]

\* A fresh activation of solve(board) at the top of its while loop.
Activation(r) ==
    [board |-> r, pc |-> "scan", list_of_possibles |-> <<>>, singles |-> <<>>, i |-> 0]

Top == stack[Len(stack)]
Caller == SubSeq(stack, 1, Len(stack) - 1)
SetTop(f) == [stack EXCEPT ![Len(stack)] = f]

\* Variant of the copy that hands back the same object (b = board).
SameObject(h, r) == [heap |-> h, ref |-> r]

\* deepcopy(board): a new Board object holding the same values.
deepcopy(h, r) == [heap |-> Append(h, h[r]), ref |-> Len(h) + 1]

\* lines 163-171 without the early return: one entry ((x, y), all_possible)
\* per empty cell, in the order of the two loops.
Scan(items) ==
    SelectSeq([k \in 1..(Side * Side) |->
                  LET x == (k - 1) \div Side
                      y == (k - 1) % Side
                  IN  <<<<x, y>>,
                        IF items[x][y] = 0 THEN find_all_possible(items, x, y) ELSE <<>>>>],
              LAMBDA e : items[e[1][1]][e[1][2]] = 0)

Init ==
    /\ input \in Inputs
    /\ heap = <<input>>
    /\ stack = <<Activation(1)>>
    /\ returned = Pending

\* lines 169-170: some empty cell has no legal value: return None.
ScanDeadEnd ==
    /\ stack # <<>> /\ Top.pc = "scan"
    /\ \E lop \in {Scan(heap[Top.board])} :
          \E k \in 1..Len(lop) : lop[k][2] = <<>>
    /\ stack' = Caller
    /\ returned' = ReturnNone
    /\ UNCHANGED <<input, heap>>

\* lines 163-171: the scan completes and list_of_possibles is built.
ScanDone ==
    /\ stack # <<>> /\ Top.pc = "scan"
    /\ \E lop \in {Scan(heap[Top.board])} :
          /\ \A k \in 1..Len(lop) : lop[k][2] # <<>>
          /\ stack' = SetTop([Top EXCEPT !.pc = "scanned", !.list_of_possibles = lop])
    /\ UNCHANGED <<input, heap, returned>>

\* lines 173-175: the board is full: return board.
Win ==
    /\ stack # <<>> /\ Top.pc = "scanned"
    /\ Top.list_of_possibles = <<>>
    /\ stack' = Caller
    /\ returned' = ReturnBoard(Top.board)
    /\ UNCHANGED <<input, heap>>

Singles(lop) == SelectSeq(lop, LAMBDA e : Len(e[2]) = 1)

\* lines 178-180: some slot has a single possibility.
StartSingles ==
    /\ stack # <<>> /\ Top.pc = "scanned"
    /\ Top.list_of_possibles # <<>>
    /\ Singles(Top.list_of_possibles) # <<>>
    /\ stack' = SetTop([Top EXCEPT !.pc = "singles",
                                   !.singles = Singles(Top.list_of_possibles)])
    /\ UNCHANGED <<input, heap, returned>>

\* The board after "board.items[x][y] = all_possible[0]" for the next single.
SingleAssigned ==
    LET single == Head(Top.singles)
    IN  Assign(heap[Top.board], single[1][1], single[1][2], single[2][1])

\* lines 180-183: one iteration of the singles loop, is_valid() true.
AssignSingle ==
    /\ stack # <<>> /\ Top.pc = "singles"
    /\ \E assigned \in {SingleAssigned} :
          /\ is_valid(assigned) = TRUE
          /\ heap' = [heap EXCEPT ![Top.board] = assigned]
    /\ LET remaining == Tail(Top.singles)
       IN  stack' = SetTop([Top EXCEPT !.singles = remaining,
                                       !.pc = IF remaining = <<>> THEN "scan" ELSE "singles"])
    /\ UNCHANGED <<input, returned>>

\* lines 180-183: one iteration of the singles loop, is_valid() false.
AssignSingleInvalid ==
    /\ stack # <<>> /\ Top.pc = "singles"
    /\ \E assigned \in {SingleAssigned} :
          /\ is_valid(assigned) = FALSE
          /\ heap' = [heap EXCEPT ![Top.board] = assigned]
    /\ stack' = Caller
    /\ returned' = ReturnNone
    /\ UNCHANGED input

\* lines 184-187: no singles: enter the loop over the first slot's values.
StartBranch ==
    /\ stack # <<>> /\ Top.pc = "scanned"
    /\ Top.list_of_possibles # <<>>
    /\ Singles(Top.list_of_possibles) = <<>>
    /\ stack' = SetTop([Top EXCEPT !.pc = "branch", !.i = 1])
    /\ UNCHANGED <<input, heap, returned>>

\* lines 187-190: b = deepcopy(board); b.items[...] = i; solve(b)
BranchTry ==
    /\ stack # <<>> /\ Top.pc = "branch"
    /\ LET coordinates == Top.list_of_possibles[1][1]
           possibles == Top.list_of_possibles[1][2]
       IN  /\ Top.i <= Len(possibles)
           /\ LET cp == deepcopy(heap, Top.board)
              IN  /\ heap' = [cp.heap EXCEPT ![cp.ref] =
                                Assign(cp.heap[cp.ref], coordinates[1], coordinates[2],
                                       possibles[Top.i])]
                  /\ stack' = Append(SetTop([Top EXCEPT !.pc = "call"]), Activation(cp.ref))
    /\ returned' = Pending
    /\ UNCHANGED input

\* line 193: every value tried: return None.
BranchExhausted ==
    /\ stack # <<>> /\ Top.pc = "branch"
    /\ Top.i > Len(Top.list_of_possibles[1][2])
    /\ stack' = Caller
    /\ returned' = ReturnNone
    /\ UNCHANGED <<input, heap>>

\* lines 190-192: the recursive call returned a board: return ret.
ResumeFound ==
    /\ stack # <<>> /\ Top.pc = "call"
    /\ returned.kind = "Board"
    /\ stack' = Caller
    /\ UNCHANGED <<input, heap, returned>>

\* Variant of the loop over the candidates that returns the result of the
\* first recursive call whatever it is ("return ret" outside the "if ret").
ResumeGiveUp ==
    /\ stack # <<>> /\ Top.pc = "call"
    /\ returned.kind = "None"
    /\ stack' = Caller
    /\ UNCHANGED <<input, heap, returned>>

\* lines 190-191, 187: the recursive call returned None: next value.
ResumeNext ==
    /\ stack # <<>> /\ Top.pc = "call"
    /\ returned.kind = "None"
    /\ stack' = SetTop([Top EXCEPT !.pc = "branch", !.i = Top.i + 1])
    /\ returned' = Pending
    /\ UNCHANGED <<input, heap>>

Next ==
    \/ ScanDeadEnd
    \/ ScanDone
    \/ Win
    \/ StartSingles
    \/ AssignSingle
    \/ AssignSingleInvalid
    \/ StartBranch
    \/ BranchTry
    \/ BranchExhausted
    \/ ResumeFound
    \/ ResumeNext

Spec == Init /\ [][Next]_vars

\* solve() is sequential code: whenever a step is possible it is taken.
FairSpec == Spec /\ WF_vars(Next)

(***************************************************************************)
(* Reference notions the properties are stated against: the 27 constraint  *)
(* groups, duplicates, peers and the existence of a valid completion.      *)
(***************************************************************************)
Cells == Idx \X Idx
At(items, c) == items[c[1]][c[2]]

RowGroup(x) == {<<x, y>> : y \in Idx}
ColumnGroup(y) == {<<x, y>> : x \in Idx}
BoxGroup(bi, bj) == {c \in Cells : c[1] \div BoxSide = bi /\ c[2] \div BoxSide = bj}

Groups ==
    {RowGroup(x) : x \in Idx} \cup {ColumnGroup(y) : y \in Idx}
        \cup {BoxGroup(bi, bj) : bi \in 0..(BoxSide - 1), bj \in 0..(BoxSide - 1)}

DuplicateIn(items, g) ==
    \E c \in g : \E d \in g : c # d /\ At(items, c) # 0 /\ At(items, c) = At(items, d)

HasDuplicate(items) == \E g \in Groups : DuplicateIn(items, g)

Full(items) == \A c \in Cells : At(items, c) # 0

EmptyCells(items) == {c \in Cells : At(items, c) = 0}

EmptyCount(items) == Cardinality(EmptyCells(items))

Peers(c) == (UNION {g \in Groups : c \in g}) \ {c}

PeerValues(items, c) == {At(items, d) : d \in Peers(c)} \ {0}

\* Some full grid without duplicates agrees with items on its non-zero cells.
RECURSIVE Completable(_)
Completable(items) ==
    IF HasDuplicate(items) THEN FALSE
    ELSE IF Full(items) THEN TRUE
    ELSE LET c == CHOOSE e \in Cells : At(items, e) = 0
         IN  \E v \in Digits : Completable(Edited(items, c, v))

Done == stack = <<>>
ReturnedBoard == Done /\ returned.kind = "Board"
Result == heap[returned.ref]

HeapRefs == 1..Len(heap)

\* A board on which the search cannot go on: is_valid() fails or some empty
\* cell has no legal value.
DeadBoard(items) ==
    \/ ~is_valid(items)
    \/ \E c \in EmptyCells(items) : find_all_possible(items, c[1], c[2]) = <<>>

(***************************************************************************)
(* C1  Soundness: whenever solve returns a grid, whatever the input, the   *)
(* grid has no empty cell and is_valid() is true on it.                    *)
(***************************************************************************)
Soundness == ReturnedBoard => (Full(Result) /\ is_valid(Result))

(***************************************************************************)
(* C2  Valid completion: for an input without duplicates, a returned grid  *)
(* is full and has no value repeated in any row, column or box.            *)
(***************************************************************************)
ValidCompletion ==
    (ReturnedBoard /\ ~HasDuplicate(input)) => (Full(Result) /\ ~HasDuplicate(Result))

(***************************************************************************)
(* C3  Completeness: for an input that has a valid completion, solve       *)
(* returns a grid and not None.                                            *)
(***************************************************************************)
Completeness == (Done /\ Completable(input)) => returned.kind = "Board"

\* solve returned a grid for a completable input after a branch had died.
CompletenessWitness ==
    /\ ReturnedBoard
    /\ Completable(input)
    /\ \E r \in HeapRefs : r # returned.ref /\ DeadBoard(heap[r])

(***************************************************************************)
(* C4  Failure on unsolvable puzzles: for an input without a valid         *)
(* completion, solve returns None and never a grid.                        *)
(***************************************************************************)
FailureOnUnsolvable == (Done /\ ~Completable(input)) => returned.kind = "None"

(***************************************************************************)
(* C5  Consistency correctness: is_valid() is False exactly when one of    *)
(* the 27 groups (rows, columns, boxes) holds a non-zero value twice.      *)
(***************************************************************************)
ConsistencyCorrect ==
    \A r \in HeapRefs : is_valid(heap[r]) = ~HasDuplicate(heap[r])

(***************************************************************************)
(* C6  Legality correctness: on every board and for every empty cell,      *)
(* find_all_possible yields exactly the digits 1..9 that no row, column or *)
(* box peer holds; nothing exactly when the peers hold all nine digits.    *)
(***************************************************************************)
LegalityCorrect ==
    /\ \A r \in HeapRefs : \A c \in EmptyCells(heap[r]) :
          LET possible == find_all_possible(heap[r], c[1], c[2])
          IN  /\ Range(possible) = Digits \ PeerValues(heap[r], c)
              /\ (possible = <<>>) = (PeerValues(heap[r], c) = Digits)
    /\ \A k \in 1..Len(stack) :
          stack[k].pc = "scanned" =>
              LET lop == stack[k].list_of_possibles
              IN  /\ {lop[n][1] : n \in 1..Len(lop)} = EmptyCells(heap[stack[k].board])
                  /\ \A n \in 1..Len(lop) :
                        Range(lop[n][2]) = Digits \ PeerValues(heap[stack[k].board], lop[n][1])

\* A scan has just computed the legal values of the empty cells, one of them
\* with a single legal value and another with several.
LegalityWitness ==
    /\ stack # <<>>
    /\ Top.pc = "scanned"
    /\ \E n \in 1..Len(Top.list_of_possibles) : Len(Top.list_of_possibles[n][2]) = 1
    /\ \E n \in 1..Len(Top.list_of_possibles) : Len(Top.list_of_possibles[n][2]) >= 2

\* An activation inside the loop over the candidates of its branch cell.
Branching(f) == f.pc \in {"branch", "call"}

\* The board of a branching activation is what its scan saw.
BranchPointKept ==
    /\ \A k \in 1..Len(stack) :
          Branching(stack[k]) =>
              /\ At(heap[stack[k].board], stack[k].list_of_possibles[1][1]) = 0
              /\ Scan(heap[stack[k].board]) = stack[k].list_of_possibles
    /\ \A j \in 1..Len(stack) : \A k \in 1..Len(stack) :
          j # k => stack[j].board # stack[k].board

\* A step leaves the boards of callers and branching activations alone.
CallerBoardsKept ==
    \A k \in 1..Len(stack) :
        (k < Len(stack) \/ Branching(stack[k])) =>
            heap'[stack[k].board] = heap[stack[k].board]

(***************************************************************************)
(* C7  Branch independence: no step changes the board of an activation     *)
(* that is waiting for a recursive call or iterating over the candidates   *)
(* of its branch cell; such a board still is what the scan saw, with the   *)
(* chosen cell empty, and activations hold distinct Board objects.         *)
(***************************************************************************)
BranchIndependence == []BranchPointKept /\ [][CallerBoardsKept]_vars

\* A recursive call returned None and the next candidate is about to start.
BranchWitness ==
    /\ stack # <<>>
    /\ Top.pc = "branch"
    /\ Top.i >= 2
    /\ Top.i <= Len(Top.list_of_possibles[1][2])

\* The step that takes the last single of a scan and goes back to scanning.
SinglesLoopEnds ==
    /\ stack # <<>>
    /\ Top.pc = "singles"
    /\ Len(stack') = Len(stack)
    /\ stack'[Len(stack)].pc = "scan"

(***************************************************************************)
(* C8  Dead end on broken constraint: when the singles loop has assigned   *)
(* its singles and goes back to scanning, the board holds no repeated      *)
(* value in any row, column or box (otherwise the activation returned      *)
(* None).                                                                  *)
(***************************************************************************)
DeadEndOnBrokenConstraint ==
    [][SinglesLoopEnds => ~HasDuplicate(heap'[Top.board])]_vars

\* The recursion is no deeper than the input has empty cells, and every
\* callee works on fewer empty cells than its caller.
DepthBounded ==
    /\ Len(stack) - 1 <= EmptyCount(input)
    /\ \A k \in 1..(Len(stack) - 1) :
          EmptyCount(heap[stack[k + 1].board]) < EmptyCount(heap[stack[k].board])

\* An iteration of the singles loop that does not return fills a cell.
PassFills ==
    (stack # <<>> /\ Top.pc = "singles" /\ Len(stack') = Len(stack)) =>
        EmptyCount(heap'[Top.board]) < EmptyCount(heap[Top.board])

(***************************************************************************)
(* C9  Termination: solve eventually returns; every iteration of the       *)
(* singles loop fills an empty cell, every recursive call runs on a board  *)
(* with fewer empty cells than its caller's, and the recursion depth never *)
(* exceeds the number of empty cells of the input.                         *)
(***************************************************************************)
Termination == <>Done /\ []DepthBounded /\ [][PassFills]_vars

\* solve has returned after recursing at least twice.
TerminationWitness == Done /\ returned.kind # "pending" /\ Len(heap) >= 3

\* Every board agrees with the input on the input's non-zero cells.
CluesKept ==
    \A r \in HeapRefs : \A c \in Cells :
        At(input, c) # 0 => At(heap[r], c) = At(input, c)

\* A step changes a cell only from 0 to a digit.
WritesOnlyEmpty ==
    /\ \A r \in HeapRefs : \A c \in Cells :
          At(heap'[r], c) # At(heap[r], c) =>
              (At(heap[r], c) = 0 /\ At(heap'[r], c) \in Digits)
    /\ \A r \in (Len(heap) + 1)..Len(heap') : \A c \in Cells :
          At(heap'[r], c) # At(heap[Top.board], c) =>
              (At(heap[Top.board], c) = 0 /\ At(heap'[r], c) \in Digits)

(***************************************************************************)
(* C10  Clue preservation: every board keeps the input's non-zero cells;   *)
(* a step changes a cell only from 0 to a digit 1..9, and a copy differs   *)
(* from the board it was taken from only in such a cell.                   *)
(***************************************************************************)
CluePreservation == []CluesKept /\ [][WritesOnlyEmpty]_vars

\* solve returned a grid that it had to fill in on a copy.
ClueWitness == ReturnedBoard /\ returned.ref > 1 /\ Result # input

====
